---------------------------- MODULE Spec2Model ----------------------------
(***************************************************************************)
(* Restaurant recommendation service: the offline filter/rank composer     *)
(* (streamlit_app.py, recommendations_from_csv), the submitted-form        *)
(* handler that tries the API and degrades to the composer, the LLM        *)
(* response parser and the orchestrator entry point (phase3_llm).          *)
(*                                                                         *)
(* Text that the code inspects character by character (locations, names,   *)
(* price buckets, ratings, cuisine lists) is a sequence of code points, so *)
(* that strip/lower/split/substring/compare are computed as Python         *)
(* computes them.  Text that is only passed through is a TLA+ string.      *)
(* Ratings are held in tenths (4.4 is 44).                                 *)
(***************************************************************************)
EXTENDS Integers, Sequences, FiniteSets, TLC

VARIABLES
    csv_file,     \* state of FIXTURE_CSV on disk: "missing" | "unreadable" | "ok"
    rows,         \* the rows csv.DictReader yields from FIXTURE_CSV
    payload,      \* the request payload handed to the composer / the API
    pc,           \* position of the running operation
    result,       \* outcome of recommendations_from_csv (locals and response)
    form,         \* the widgets' values when the form is submitted
    api,          \* what POST /recommendations does for this request
    trace,        \* phases the submitted handler went through, in order
    api_attempts, \* calls of get_recommendations in this request
    fallback_calls, \* calls of recommendations_from_csv in this request
    text,         \* the response text handed to _parse_llm_response
    parsed,       \* outcome of _parse_llm_response
    gen           \* one generate_restaurant_recommendations invocation

vars == <<csv_file, rows, payload, pc, result, form, api, trace,
          api_attempts, fallback_calls, text, parsed, gen>>

----------------------------------------------------------------------------
(* Bounds of the model. *)

MaxRows == 2
MaxItems == 2
MaxCandidates == 2

----------------------------------------------------------------------------
(* Text literals, as code points. *)

s_BangaloreIndiranagar == <<66, 97, 110, 103, 97, 108, 111, 114, 101, 44, 32, 73, 110, 100, 105, 114, 97, 110, 97, 103, 97, 114>>  \* "Bangalore, Indiranagar"
s_Bangalore == <<66, 97, 110, 103, 97, 108, 111, 114, 101>>  \* "Bangalore"
s_bangalore_lc == <<98, 97, 110, 103, 97, 108, 111, 114, 101>>  \* "bangalore"
s_Indiranagar == <<73, 110, 100, 105, 114, 97, 110, 97, 103, 97, 114>>  \* "Indiranagar"
s_Koramangala == <<75, 111, 114, 97, 109, 97, 110, 103, 97, 108, 97>>  \* "Koramangala"
s_LaPiazza == <<76, 97, 32, 80, 105, 97, 122, 122, 97>>  \* "La Piazza"
s_BudgetBites == <<66, 117, 100, 103, 101, 116, 32, 66, 105, 116, 101, 115>>  \* "Budget Bites"
s_alpha == <<97, 108, 112, 104, 97>>  \* "alpha"
s_Zed == <<90, 101, 100>>  \* "Zed"
s_medium == <<109, 101, 100, 105, 117, 109>>  \* "medium"
s_low == <<108, 111, 119>>  \* "low"
s_LOW == <<76, 79, 87>>  \* "LOW"
s_44 == <<52, 46, 52>>  \* "4.4"
s_40 == <<52, 46, 48>>  \* "4.0"
s_NA == <<78, 47, 65>>  \* "N/A"
s_italian_pizza == <<105, 116, 97, 108, 105, 97, 110, 124, 112, 105, 122, 122, 97>>  \* "italian|pizza"
s_indian_fastfood == <<105, 110, 100, 105, 97, 110, 124, 102, 97, 115, 116, 32, 102, 111, 111, 100>>  \* "indian|fast food"
s_Italian == <<73, 116, 97, 108, 105, 97, 110>>  \* "Italian"
s_pizza == <<112, 105, 122, 122, 97>>  \* "pizza"
s_abc == <<97, 98, 99>>  \* "abc"
s_Unknown == <<85, 110, 107, 110, 111, 119, 110>>  \* "Unknown"
k_title == <<116, 105, 116, 108, 101>>  \* "title"
k_summary == <<115, 117, 109, 109, 97, 114, 121>>  \* "summary"
k_recommendations == <<114, 101, 99, 111, 109, 109, 101, 110, 100, 97, 116, 105, 111, 110, 115>>  \* "recommendations"
k_restaurant_id == <<114, 101, 115, 116, 97, 117, 114, 97, 110, 116, 95, 105, 100>>  \* "restaurant_id"
k_restaurant_name == <<114, 101, 115, 116, 97, 117, 114, 97, 110, 116, 95, 110, 97, 109, 101>>  \* "restaurant_name"
k_match_score == <<109, 97, 116, 99, 104, 95, 115, 99, 111, 114, 101>>  \* "match_score"
k_reason == <<114, 101, 97, 115, 111, 110>>  \* "reason"
s_DefaultTitle == <<82, 101, 115, 116, 97, 117, 114, 97, 110, 116, 32, 82, 101, 99, 111, 109, 109, 101, 110, 100, 97, 116, 105, 111, 110, 115>>  \* "Restaurant Recommendations"
s_not_json == <<123, 110, 111, 116, 32, 106, 115, 111, 110>>  \* "{not json"
s_fenced == <<96, 96, 96, 106, 115, 111, 110, 32, 123, 125, 32, 96, 96, 96>>  \* "```json {} ```"
s_Top == <<84, 111, 112, 32, 112, 105, 99, 107, 115>>  \* "Top picks"
s_Why == <<71, 111, 111, 100, 32, 109, 97, 116, 99, 104>>  \* "Good match"
s_ab == <<97, 98>>  \* "ab"
s_null == <<110, 117, 108, 108>>  \* "null"
s_true == <<116, 114, 117, 101>>  \* "true"
s_false == <<102, 97, 108, 115, 101>>  \* "false"

\* Python's None in a slot that otherwise holds a TLA+ string.
None == "<None>"

----------------------------------------------------------------------------
(* Python's str operations, on code-point sequences. *)

Range(s) == {s[i] : i \in 1..Len(s)}

IsSpace(c) == c \in {9, 10, 11, 12, 13, 32}

RECURSIVE LStrip(_)
LStrip(s) == IF s # <<>> /\ IsSpace(Head(s)) THEN LStrip(Tail(s)) ELSE s

RECURSIVE RStrip(_)
RStrip(s) ==
    IF s # <<>> /\ IsSpace(s[Len(s)]) THEN RStrip(SubSeq(s, 1, Len(s) - 1)) ELSE s

\* str.strip()
Strip(s) == RStrip(LStrip(s))

\* str.lower(), on the ASCII letters
Lower(s) == [i \in 1..Len(s) |-> IF s[i] \in 65..90 THEN s[i] + 32 ELSE s[i]]

\* str.replace("  ", " "): non-overlapping occurrences, left to right
RECURSIVE ReplaceDoubleSpace(_)
ReplaceDoubleSpace(s) ==
    IF Len(s) < 2 THEN s
    ELSE IF s[1] = 32 /\ s[2] = 32
         THEN <<32>> \o ReplaceDoubleSpace(SubSeq(s, 3, Len(s)))
         ELSE <<s[1]>> \o ReplaceDoubleSpace(Tail(s))

\* str.split(sep) for a one-character separator: empty pieces are kept
RECURSIVE Split(_, _)
Split(s, sep) ==
    IF \A i \in 1..Len(s) : s[i] # sep THEN <<s>>
    ELSE LET k == CHOOSE i \in 1..Len(s) :
                      s[i] = sep /\ \A j \in 1..(i - 1) : s[j] # sep
         IN  <<SubSeq(s, 1, k - 1)>> \o Split(SubSeq(s, k + 1, Len(s)), sep)

\* p in s
IsSubstr(p, s) ==
    \E i \in 0..(Len(s) - Len(p)) : SubSeq(s, i + 1, i + Len(p)) = p

\* a < b for str: by code point, a proper prefix first
RECURSIVE StrLess(_, _)
StrLess(a, b) ==
    IF b = <<>> THEN FALSE
    ELSE IF a = <<>> THEN TRUE
    ELSE IF Head(a) # Head(b) THEN Head(a) < Head(b)
    ELSE StrLess(Tail(a), Tail(b))

IsDigits(s) == \A i \in 1..Len(s) : s[i] \in 48..57

RECURSIVE DigitsValue(_)
DigitsValue(s) ==
    IF s = <<>> THEN 0
    ELSE 10 * DigitsValue(SubSeq(s, 1, Len(s) - 1)) + (s[Len(s)] - 48)

\* float(s) for text: surrounding whitespace is dropped, then digits with an
\* optional point.  The value is in tenths; texts here carry at most one
\* fractional digit.  ok = FALSE is the ValueError.
ParseFloat(s) ==
    LET t == Strip(s)
        pieces == Split(t, 46)
        whole == pieces[1]
        frac == IF Len(pieces) = 2 THEN pieces[2] ELSE <<>>
        good == /\ Len(pieces) <= 2
                /\ IsDigits(whole) /\ IsDigits(frac)
                /\ Len(whole) + Len(frac) > 0
                /\ Len(frac) <= 1
    IN  IF good
        THEN [ok |-> TRUE, val |-> 10 * DigitsValue(whole) + DigitsValue(frac)]
        ELSE [ok |-> FALSE, val |-> 0]

\* int(s) for text: surrounding whitespace, an optional sign, digits.
ParseInt(s) ==
    LET t == Strip(s)
        neg == t # <<>> /\ Head(t) = 45
        digits == IF t # <<>> /\ Head(t) \in {43, 45} THEN Tail(t) ELSE t
    IN  IF digits # <<>> /\ IsDigits(digits)
        THEN [ok |-> TRUE,
              val |-> IF neg THEN 0 - DigitsValue(digits) ELSE DigitsValue(digits)]
        ELSE [ok |-> FALSE, val |-> 0]

Min(a, b) == IF a < b THEN a ELSE b
Max(a, b) == IF a > b THEN a ELSE b

\* seq[:n] for n >= 0
Take(s, n) == SubSeq(s, 1, Min(n, Len(s)))

----------------------------------------------------------------------------
(* Payload values: a JSON-like slot holds None, a number or text. *)

PyNone == [k |-> "none", n |-> 0, s |-> <<>>]
PyNum(v) == [k |-> "num", n |-> v, s |-> <<>>]
PyStr(t) == [k |-> "str", n |-> 0, s |-> t]

\* bool(x)
Truthy(x) == \/ x.k = "num" /\ x.n # 0
             \/ x.k = "str" /\ x.s # <<>>

----------------------------------------------------------------------------
(* streamlit_app.py: the fallback composer, recommendations_from_csv. *)

\* _norm(s): (s or "").strip().lower().replace("  ", " ")
_norm(s) == ReplaceDoubleSpace(Lower(Strip(s)))

\* location_parts: the pieces of the normalised location between commas,
\* those that are blank dropped, each piece kept as it stands
LocationParts(location) ==
    LET location_raw == _norm(location)
    IN  IF location_raw # <<>>
        THEN SelectSeq(Split(location_raw, 44), LAMBDA p : Strip(p) # <<>>)
        ELSE <<>>

\* min_rating: float(min_rating), None when absent or not a number
MinRating(min_rating) ==
    IF min_rating.k = "none" THEN [set |-> FALSE, val |-> 0]
    ELSE IF min_rating.k = "num" THEN [set |-> TRUE, val |-> min_rating.n]
    ELSE LET f == ParseFloat(min_rating.s)
         IN  [set |-> f.ok, val |-> f.val]

\* cuisine_prefs: a list is taken as it is, another truthy value becomes a
\* one-element list; empty elements are dropped, the rest normalised
CuisinePrefs(cuisine_preferences) ==
    LET given == IF cuisine_preferences.k = "list" THEN cuisine_preferences.items
                 ELSE IF cuisine_preferences.k = "str" /\ cuisine_preferences.s # <<>>
                      THEN <<cuisine_preferences.s>>
                      ELSE <<>>
        kept == SelectSeq(given, LAMBDA c : c # <<>>)
    IN  [i \in 1..Len(kept) |-> _norm(kept[i])]

MaxResults == 10
DefaultResults == 5

\* int(payload.get("num_results") or 5); ok = FALSE is int()'s ValueError
IntOfNumResults(num_results) ==
    IF ~Truthy(num_results) THEN [ok |-> TRUE, val |-> DefaultResults]
    ELSE IF num_results.k = "num" THEN [ok |-> TRUE, val |-> num_results.n]
    ELSE ParseInt(num_results.s)

\* max(1, min(10, n))
ClampResults(n) == Max(1, Min(MaxResults, n))

\* float(r.get("std_rating") or 0); ok = FALSE is float()'s ValueError
FloatOrZero(std_rating) ==
    IF std_rating = <<>> THEN [ok |-> TRUE, val |-> 0] ELSE ParseFloat(std_rating)

\* rat of the filter loop: the ValueError is caught there and gives 0
FilterRating(r) ==
    LET f == FloatOrZero(r.std_rating) IN IF f.ok THEN f.val ELSE 0

\* {_norm(x) for x in raw_c if x}
RowCuisines(r) ==
    {_norm(x) : x \in {y \in Range(Split(r.std_cuisines, 124)) : y # <<>>}}

LocationMatches(r, location_parts) ==
    LET city == _norm(r.std_city)
        loc == _norm(r.std_locality)
    IN  \A i \in 1..Len(location_parts) :
            \/ city # <<>> /\ IsSubstr(location_parts[i], city)
            \/ loc # <<>> /\ IsSubstr(location_parts[i], loc)

\* mutant: the price check is skipped
RowPasses_IgnoresPrice(r, location_parts, price_pref, min_rating, cuisine_prefs) ==
    /\ location_parts # <<>> => LocationMatches(r, location_parts)
    /\ ~(min_rating.set /\ FilterRating(r) < min_rating.val)
    /\ cuisine_prefs # <<>> =>
           \E i \in 1..Len(cuisine_prefs) : cuisine_prefs[i] \in RowCuisines(r)

\* mutant: a row without a rating is dropped
RowPasses_DropsUnrated(r, location_parts, price_pref, min_rating, cuisine_prefs) ==
    /\ r.std_rating # <<>>
    /\ location_parts # <<>> => LocationMatches(r, location_parts)
    /\ ~(price_pref # <<>> /\ _norm(r.std_price_bucket) # price_pref)
    /\ ~(min_rating.set /\ FilterRating(r) < min_rating.val)
    /\ cuisine_prefs # <<>> =>
           \E i \in 1..Len(cuisine_prefs) : cuisine_prefs[i] \in RowCuisines(r)

\* one pass of the filter loop: TRUE when r reaches filtered.append(r)
RowPasses(r, location_parts, price_pref, min_rating, cuisine_prefs) ==
    /\ location_parts # <<>> => LocationMatches(r, location_parts)
    /\ ~(price_pref # <<>> /\ _norm(r.std_price_bucket) # price_pref)
    /\ ~(min_rating.set /\ FilterRating(r) < min_rating.val)
    /\ cuisine_prefs # <<>> =>
           \E i \in 1..Len(cuisine_prefs) : cuisine_prefs[i] \in RowCuisines(r)

\* key(a) < key(b) for the sort key (-float(std_rating or 0), name or "")
KeyLess(a, b) ==
    LET ra == FloatOrZero(a.std_rating).val
        rb == FloatOrZero(b.std_rating).val
    IN  \/ (0 - ra) < (0 - rb)
        \/ ra = rb /\ StrLess(a.name, b.name)

RECURSIVE InsertSorted(_, _)
InsertSorted(x, s) ==
    IF s = <<>> THEN <<x>>
    ELSE IF KeyLess(x, Head(s)) THEN <<x>> \o s
    ELSE <<Head(s)>> \o InsertSorted(x, Tail(s))

\* list.sort(key=...): stable, ascending by key
RECURSIVE SortRows(_)
SortRows(s) ==
    IF s = <<>> THEN <<>>
    ELSE InsertSorted(s[Len(s)], SortRows(SubSeq(s, 1, Len(s) - 1)))

\* [c.strip() for c in cuisines_str.split("|") if c.strip()]
CuisinesList(std_cuisines) ==
    LET pieces == Split(std_cuisines, 124)
        kept == SelectSeq(pieces, LAMBDA c : Strip(c) # <<>>)
    IN  [i \in 1..Len(kept) |-> Strip(kept[i])]

\* the display record of one row; rating.ok = FALSE is rating None
Restaurant(r) ==
    [id |-> r.id,
     name |-> IF r.name = <<>> THEN s_Unknown ELSE r.name,
     city |-> r.std_city,
     locality |-> r.std_locality,
     rating |-> FloatOrZero(r.std_rating),
     price_bucket |-> r.std_price_bucket,
     cuisines |-> CuisinesList(r.std_cuisines)]

\* the fixed explanation of an offline answer (line 135)
OfflineNotice ==
    "Recommendations from offline data (API not connected). Start the Phase 4 API for AI explanations."

\* the function's locals when it ends before the filter loop
NoLocals == [filtered |-> <<>>, top |-> <<>>, num_results |-> 0]

\* return at line 66
CsvNotFound ==
    [kind |-> "returned", exc |-> None, at |-> "isfile",
     restaurants |-> <<>>, explanation |-> None,
     explanation_error |-> "CSV not found.", locals |-> NoLocals]

\* mutant: the error response also carries the offline notice
CsvUnreadable_KeepsNotice ==
    [kind |-> "returned", exc |-> None, at |-> "open",
     restaurants |-> <<>>, explanation |-> OfflineNotice,
     explanation_error |-> "[Errno 13] Permission denied", locals |-> NoLocals]

\* return at line 71: str(e) of the error open() or the reader raised
CsvUnreadable ==
    [kind |-> "returned", exc |-> None, at |-> "open",
     restaurants |-> <<>>, explanation |-> None,
     explanation_error |-> "[Errno 13] Permission denied", locals |-> NoLocals]

\* an exception leaving the function
Raised(exc, at, locals) ==
    [kind |-> "raised", exc |-> exc, at |-> at,
     restaurants |-> <<>>, explanation |-> None, explanation_error |-> None,
     locals |-> locals]

\* return at line 133
Composed(restaurants, locals) ==
    [kind |-> "returned", exc |-> None, at |-> "end",
     restaurants |-> restaurants, explanation |-> OfflineNotice,
     explanation_error |-> None, locals |-> locals]

\* recommendations_from_csv(payload) with FIXTURE_CSV in state file holding
\* the rows csv_rows
recommendations_from_csv(file, csv_rows, p) ==
    IF file = "missing" THEN CsvNotFound
    ELSE IF file = "unreadable" THEN CsvUnreadable
    ELSE
    LET location_parts == LocationParts(p.location)
        price_pref == _norm(p.price_preference)
        min_rating == MinRating(p.min_rating)
        cuisine_prefs == CuisinePrefs(p.cuisine_preferences)
        n == IntOfNumResults(p.num_results)
    IN  IF ~n.ok THEN Raised("ValueError", "num_results", NoLocals)
        ELSE
        LET num_results == ClampResults(n.val)
            filtered == SelectSeq(csv_rows,
                LAMBDA r : RowPasses(r, location_parts, price_pref,
                                     min_rating, cuisine_prefs))
            afterFilter == [filtered |-> filtered, top |-> <<>>,
                            num_results |-> num_results]
        IN  IF \E i \in 1..Len(filtered) : ~FloatOrZero(filtered[i].std_rating).ok
            THEN Raised("ValueError", "sort", afterFilter)
            ELSE
            LET top == Take(SortRows(filtered), num_results)
            IN  Composed([i \in 1..Len(top) |-> Restaurant(top[i])],
                         [afterFilter EXCEPT !.top = top])

----------------------------------------------------------------------------
(* phase3_llm/orchestrator.py: _parse_llm_response.                        *)
(* A JSON value is a record of one shape: t names its type, n holds a      *)
(* number or a boolean (0/1), s a string's code points, a an array's       *)
(* items, o an object's members (key/value pairs in document order).       *)

JNull == [t |-> "null", n |-> 0, s |-> <<>>, a |-> <<>>, o |-> <<>>]
JBool(b) == [t |-> "bool", n |-> IF b THEN 1 ELSE 0, s |-> <<>>, a |-> <<>>, o |-> <<>>]
JNum(v) == [t |-> "num", n |-> v, s |-> <<>>, a |-> <<>>, o |-> <<>>]
JStr(chars) == [t |-> "str", n |-> 0, s |-> chars, a |-> <<>>, o |-> <<>>]
JArr(items) == [t |-> "arr", n |-> 0, s |-> <<>>, a |-> items, o |-> <<>>]
JObj(members) == [t |-> "obj", n |-> 0, s |-> <<>>, a |-> <<>>, o |-> members]
Member(key, value) == [key |-> key, value |-> value]

\* bool(v) of a decoded value
JTruthy(v) ==
    CASE v.t = "null" -> FALSE
      [] v.t \in {"bool", "num"} -> v.n # 0
      [] v.t = "str" -> v.s # <<>>
      [] v.t = "arr" -> v.a # <<>>
      [] v.t = "obj" -> v.o # <<>>

\* v or d
JOr(v, d) == IF JTruthy(v) THEN v ELSE d

\* dict.get(key): the member's value (the last one of that key), else None
JGet(obj, key) ==
    LET at == {i \in 1..Len(obj.o) : obj.o[i].key = key}
    IN  IF at = {} THEN JNull
        ELSE obj.o[CHOOSE i \in at : \A j \in at : j <= i].value

\* isinstance(v, dict)
IsDict(v) == v.t = "obj"

\* whether "for item in v" can start: a list, a str or a dict iterates,
\* a number or a boolean raises TypeError
Iterable(v) == v.t \in {"arr", "str", "obj"}

\* the items "for item in v" yields: a list's items, a str's characters,
\* a dict's keys
IterItems(v) ==
    CASE v.t = "arr" -> v.a
      [] v.t = "str" -> [i \in 1..Len(v.s) |-> JStr(<<v.s[i]>>)]
      [] v.t = "obj" -> [i \in 1..Len(v.o) |-> JStr(v.o[i].key)]

RECURSIVE NatText(_)
NatText(n) ==
    IF n < 10 THEN <<48 + n>> ELSE NatText(n \div 10) \o <<48 + (n % 10)>>

RECURSIVE JoinTexts(_)
JoinTexts(parts) ==
    IF parts = <<>> THEN <<>>
    ELSE IF Len(parts) = 1 THEN parts[1]
    ELSE parts[1] \o <<44, 32>> \o JoinTexts(Tail(parts))

\* the text of a JSON value (no character of the strings here needs an
\* escape)
RECURSIVE JsonText(_)
JsonText(v) ==
    CASE v.t = "null" -> s_null
      [] v.t = "bool" -> IF v.n = 1 THEN s_true ELSE s_false
      [] v.t = "num" -> NatText(v.n)
      [] v.t = "str" -> <<34>> \o v.s \o <<34>>
      [] v.t = "arr" ->
             <<91>> \o JoinTexts([i \in 1..Len(v.a) |-> JsonText(v.a[i])]) \o <<93>>
      [] v.t = "obj" ->
             <<123>>
             \o JoinTexts([i \in 1..Len(v.o) |->
                    <<34>> \o v.o[i].key \o <<34, 58, 32>> \o JsonText(v.o[i].value)])
             \o <<125>>

\* A response text: its characters and what json.loads makes of them
\* (ok = FALSE is json.JSONDecodeError).
JsonDocument(v) == [raw |-> JsonText(v), json |-> [ok |-> TRUE, value |-> v]]
NotJson(chars) == [raw |-> chars, json |-> [ok |-> FALSE, value |-> JNull]]

\* the same document with white space around it, which json.loads skips
PaddedDocument(v) ==
    [raw |-> <<32>> \o JsonText(v) \o <<10>>, json |-> [ok |-> TRUE, value |-> v]]

\* json.loads(text)
JsonLoads(t) == t.json

\* recommendation entries a response may carry: the two records of the
\* schema (one without restaurant_name) and entries that are no records
ItemPool ==
    { JObj(<<Member(k_restaurant_id, JStr(<<49, 50, 51>>)),
             Member(k_restaurant_name, JStr(s_LaPiazza)),
             Member(k_match_score, JNum(90)),
             Member(k_reason, JStr(s_Why))>>),
      JObj(<<Member(k_restaurant_id, JNull),
             Member(k_reason, JStr(s_Why))>>),
      JNum(7),
      JNull,
      JStr(s_ab) }

ItemLists == UNION {[1..n -> ItemPool] : n \in 0..MaxItems}

\* values of the "recommendations" member; absent is the member left out
RecommendationsValues ==
    {JArr(items) : items \in ItemLists}
    \cup {JNull, JNum(0), JNum(5), JBool(TRUE), JBool(FALSE), JStr(s_ab),
          JStr(<<>>), JObj(<<>>), JObj(<<Member(k_title, JNum(1))>>)}

OptionalMember(key, values) ==
    {<<>>} \cup {<<Member(key, v)>> : v \in values}

\* documents whose top level is an object
ObjectDocuments ==
    {JObj(t \o s \o r) :
        t \in OptionalMember(k_title, {JNull, JStr(s_Top)}),
        s \in OptionalMember(k_summary, {JStr(s_Why)}),
        r \in OptionalMember(k_recommendations, RecommendationsValues)}

\* documents whose top level is no object
OtherDocuments ==
    {JArr(<<>>), JArr(<<JNum(7)>>), JStr(s_ab), JNum(5), JNum(0), JNull, JBool(TRUE)}

\* a response with white space around it, whose recommendations hold an
\* entry that is no record and a record without restaurant_name
PaddedResponse ==
    LET bare == CHOOSE v \in ItemPool : IsDict(v) /\ JGet(v, k_restaurant_name) = JNull
    IN  PaddedDocument(JObj(<<Member(k_recommendations, JArr(<<JNum(7), bare>>))>>))

Texts ==
    {JsonDocument(v) : v \in ObjectDocuments \cup OtherDocuments}
    \cup {NotJson(s_not_json), NotJson(<<>>), NotJson(s_fenced)}
    \cup {PaddedResponse}

NoText == NotJson(<<>>)

\* LLMRecommendation(...) for one record of the response
Recommendation(item) ==
    [restaurant_id |-> JGet(item, k_restaurant_id),
     restaurant_name |-> JOr(JGet(item, k_restaurant_name), JStr(<<>>)),
     match_score |-> JGet(item, k_match_score),
     reason |-> JOr(JGet(item, k_reason), JStr(<<>>))]

\* no outcome yet
NoParse ==
    [kind |-> "pending", exc |-> None, title |-> JNull, summary |-> JNull,
     recommendations |-> <<>>, raw_response_text |-> <<>>]

ParseRaised(exc) ==
    [kind |-> "raised", exc |-> exc, title |-> JNull, summary |-> JNull,
     recommendations |-> <<>>, raw_response_text |-> <<>>]

\* variant: the text is kept without the white space around it
LLMRecommendationsResult_StripsText(title, summary, recommendations, raw_response_text) ==
    [kind |-> "returned", exc |-> None,
     title |-> title, summary |-> summary,
     recommendations |-> recommendations,
     raw_response_text |-> Strip(raw_response_text)]

\* LLMRecommendationsResult(...) of lines 141-146
LLMRecommendationsResult(title, summary, recommendations, raw_response_text) ==
    [kind |-> "returned", exc |-> None,
     title |-> title, summary |-> summary,
     recommendations |-> recommendations,
     raw_response_text |-> raw_response_text]

\* _parse_llm_response(text)
_parse_llm_response(t) ==
    LET loaded == JsonLoads(t)
        data == loaded.value
    IN  IF ~loaded.ok THEN ParseRaised("ValueError")
        ELSE IF ~IsDict(data) THEN ParseRaised("AttributeError")
        ELSE
        LET title == JOr(JGet(data, k_title), JStr(s_DefaultTitle))
            summary == JOr(JGet(data, k_summary), JStr(<<>>))
            recs_data == JOr(JGet(data, k_recommendations), JArr(<<>>))
        IN  IF ~Iterable(recs_data) THEN ParseRaised("TypeError")
            ELSE
            LET records == SelectSeq(IterItems(recs_data), IsDict)
            IN  LLMRecommendationsResult(title, summary,
                    [i \in 1..Len(records) |-> Recommendation(records[i])],
                    t.raw)

----------------------------------------------------------------------------
(* phase3_llm/orchestrator.py: generate_restaurant_recommendations, with   *)
(* the prompt builder and the Groq client it calls.                        *)

\* candidates[:50] and list(d["raw"])[:8] of the prompt builder
PromptCandidateCap == 50
PromptRawKeyCap == 8

Candidate(id, name, city, locality, price, rating, cuisines, raw) ==
    [id |-> id, name |-> name, city |-> city, locality |-> locality,
     price_bucket |-> price, rating |-> rating, cuisines |-> cuisines,
     raw |-> raw]

\* The two candidates of the integration test and one that carries only
\* its id and name, with a raw bag of nine keys.  An absent optional field
\* is None; a rating is in tenths, 0 - 1 when absent.
CandidatePool ==
    { Candidate("123", "La Piazza", "Bangalore", "Indiranagar", "medium", 44,
                <<"italian", "pizza">>, <<>>),
      Candidate("456", "Budget Bites", "Bangalore", "Koramangala", "low", 40,
                <<"indian", "fast food">>, <<>>),
      Candidate("789", "Corner Cafe", None, None, None, 0 - 1, <<>>,
                <<"a", "b", "c", "d", "e", "f", "g", "h", "i">>) }

CandidateLists == UNION {[1..n -> CandidatePool] : n \in 0..MaxCandidates}

\* a list one longer than the prompt's cap, so that candidates[:50] cuts it
LongCandidateList ==
    [i \in 1..(PromptCandidateCap + 1) |->
        CHOOSE c \in CandidatePool : c.id = (IF i % 2 = 1 THEN "456" ELSE "123")]

\* UserPreferences values: nothing set, and the integration test's
Preferences ==
    { [price_preference |-> None, location |-> None, min_rating |-> 0 - 1,
       cuisine_preferences |-> <<>>],
      [price_preference |-> "medium", location |-> "Bangalore, Indiranagar",
       min_rating |-> 40, cuisine_preferences |-> <<"italian", "pizza">>],
      [price_preference |-> "low", location |-> None, min_rating |-> 0 - 1,
       cuisine_preferences |-> <<>>] }

\* asdict(c) with the raw bag cut to its first eight keys
SerializedCandidate(c) ==
    [c EXCEPT !.raw = SubSeq(c.raw, 1, Min(PromptRawKeyCap, Len(c.raw)))]

\* variant: the builder keeps only candidates of the preferred price tier
_build_user_prompt_PriceFiltered(user_preferences, candidates, max_recommendations) ==
    LET kept == SelectSeq(candidates,
                    LAMBDA c : user_preferences.price_preference = None
                               \/ c.price_bucket = user_preferences.price_preference)
        truncated_candidates == Take(kept, PromptCandidateCap)
    IN  [user_preferences |-> user_preferences,
         candidate_restaurants |->
             [i \in 1..Len(truncated_candidates) |->
                 SerializedCandidate(truncated_candidates[i])],
         max_recommendations |-> max_recommendations]

\* the document _build_user_prompt serialises: the preferences, the first
\* fifty candidates handed in, and the cap on recommendations (the fixed
\* instructions and schema are left out)
_build_user_prompt(user_preferences, candidates, max_recommendations) ==
    LET truncated_candidates == Take(candidates, PromptCandidateCap)
    IN  [user_preferences |-> user_preferences,
         candidate_restaurants |->
             [i \in 1..Len(truncated_candidates) |->
                 SerializedCandidate(truncated_candidates[i])],
         max_recommendations |-> max_recommendations]

NoPrompt ==
    [user_preferences |-> None, candidate_restaurants |-> <<>>,
     max_recommendations |-> 0]

\* texts the provider may answer with: a document with two records, one
\* with entries that are no records, an empty object, a document whose
\* recommendations are a number, an array, text that is not JSON, ""
\* (chat_completion's "content or ''"), and a document with white space
\* around it
ResponsePool ==
    LET full == CHOOSE v \in ItemPool : JGet(v, k_restaurant_name) # JNull
        bare == CHOOSE v \in ItemPool : IsDict(v) /\ JGet(v, k_restaurant_name) = JNull
    IN  { JsonDocument(JObj(<<Member(k_title, JStr(s_Top)),
                              Member(k_recommendations, JArr(<<full, bare>>))>>)),
          JsonDocument(JObj(<<Member(k_recommendations, JArr(<<JNum(7), full>>))>>)),
          JsonDocument(JObj(<<>>)),
          JsonDocument(JObj(<<Member(k_recommendations, JNum(5))>>)),
          JsonDocument(JArr(<<>>)),
          NotJson(s_not_json),
          NotJson(<<>>),
          PaddedResponse }

\* the invocation before its first step
GenStart(user_preferences, candidates, max_recommendations, client) ==
    [pc |-> "check",
     user_preferences |-> user_preferences,
     candidates |-> candidates,
     max_recommendations |-> max_recommendations,
     client |-> client,                \* "none" | "supplied" | "constructed"
     user_prompt |-> NoPrompt,
     clients_constructed |-> 0,        \* GroqLLMClient() calls
     gateway_calls |-> 0,              \* chat_completion calls
     upstream_requests |-> 0,          \* chat.completions.create calls
     response_text |-> NoText,
     outcome |-> NoParse]

\* the error of line 166
EmptyCandidateSet ==
    [kind |-> "raised", exc |-> "ValueError: requires at least one candidate restaurant",
     title |-> JNull, summary |-> JNull,
     recommendations |-> <<>>, raw_response_text |-> <<>>]

----------------------------------------------------------------------------
(* Inputs of the composer: rows of the data file and request payloads. *)

Row(id, name, city, locality, price, rating, cuisines) ==
    [id |-> id, name |-> name, std_city |-> city, std_locality |-> locality,
     std_price_bucket |-> price, std_rating |-> rating, std_cuisines |-> cuisines]

\* The two candidates of the integration test, a row with every field
\* empty, a row that ties on rating with a lower-case name and an
\* upper-case price bucket, and a row whose rating is not a number.
RowPool ==
    { Row("123", s_LaPiazza, s_Bangalore, s_Indiranagar, s_medium, s_44, s_italian_pizza),
      Row("456", s_BudgetBites, s_Bangalore, s_Koramangala, s_low, s_40, s_indian_fastfood),
      Row("7", <<>>, <<>>, <<>>, <<>>, <<>>, <<>>),
      Row("8", s_alpha, s_Bangalore, <<>>, s_LOW, s_40, s_Italian),
      Row("9", s_Zed, s_Bangalore, s_Indiranagar, s_low, s_NA, s_pizza) }

RowLists == UNION {[1..n -> RowPool] : n \in 0..MaxRows}

NoCuisines == [k |-> "none", items |-> <<>>, s |-> <<>>]
CuisineList(items) == [k |-> "list", items |-> items, s |-> <<>>]
CuisineText(t) == [k |-> "str", items |-> <<>>, s |-> t]

Payloads ==
    [location : {<<>>, s_BangaloreIndiranagar, s_bangalore_lc},
     price_preference : {<<>>, s_LOW},
     min_rating : {PyNone, PyNum(40), PyStr(s_abc)},
     cuisine_preferences : {NoCuisines, CuisineList(<<s_Italian>>), CuisineText(s_pizza)},
     num_results : {PyNone, PyNum(0), PyNum(1), PyNum(11), PyStr(s_abc)}]

Pending ==
    [kind |-> "pending", exc |-> None, at |-> "",
     restaurants |-> <<>>, explanation |-> None, explanation_error |-> None,
     locals |-> NoLocals]

NoForm == [location |-> <<>>, price |-> <<>>, min_rating |-> 0,
           cuisine_selection |-> <<>>, num_results |-> 0]
NoPayload ==
    [location |-> <<>>, price_preference |-> <<>>, min_rating |-> PyNone,
     cuisine_preferences |-> NoCuisines, num_results |-> PyNone]
\* the variables the composer's specification leaves alone
RequestIdle ==
    /\ form = NoForm /\ api = "none" /\ trace = <<>>
    /\ api_attempts = 0 /\ fallback_calls = 0
ParseIdle == text = NoText /\ parsed = NoParse
GenIdle == gen = [pc |-> "idle"]

----------------------------------------------------------------------------
(* Spec: recommendations_from_csv applied to every payload and data file. *)

Init ==
    /\ csv_file \in {"missing", "unreadable", "ok"}
    /\ rows \in RowLists
    /\ csv_file # "ok" => rows = <<>>
    /\ payload \in Payloads
    /\ pc = "call"
    /\ result = Pending
    /\ RequestIdle /\ ParseIdle /\ GenIdle

CallRecommendationsFromCsv ==
    /\ pc = "call"
    /\ result' = recommendations_from_csv(csv_file, rows, payload)
    /\ pc' = "done"
    /\ UNCHANGED <<csv_file, rows, payload, form, api, trace, api_attempts,
                   fallback_calls, text, parsed, gen>>

Next == CallRecommendationsFromCsv

Spec == Init /\ [][Next]_vars

----------------------------------------------------------------------------
(* Properties of the composer. *)

Returned == pc = "done" /\ result.kind = "returned"
\* the filter loop ran to its end
Filtered == pc = "done" /\ result.at \in {"sort", "end"}

Count(x, s) == Cardinality({i \in 1..Len(s) : s[i] = x})

\* a row's rating with a missing rating counted as 0
RatingOrZero(r) == IF r.std_rating = <<>> THEN 0 ELSE ParseFloat(r.std_rating).val

\* a ranks strictly above b: higher rating, or equal rating and smaller name
RanksAbove(a, b) ==
    \/ RatingOrZero(a) > RatingOrZero(b)
    \/ RatingOrZero(a) = RatingOrZero(b) /\ StrLess(a.name, b.name)

\* top holds the first L entries of pool in rank order
IsFirstOf(top, pool, L) ==
    /\ Len(top) = Min(L, Len(pool))
    /\ \A x \in Range(top) : Count(x, top) <= Count(x, pool)
    /\ \A i, j \in 1..Len(top) : i < j => ~RanksAbove(top[j], top[i])
    /\ \A x \in Range(pool) :
           Count(x, pool) > Count(x, top) =>
               \A y \in Range(top) : ~RanksAbove(x, y)

OnlyLocationSet(p) ==
    /\ Strip(p.location) # <<>>
    /\ p.price_preference = <<>>
    /\ p.min_rating.k = "none"
    /\ p.cuisine_preferences.k = "none"

AllUnset(p) ==
    /\ p.location = <<>>
    /\ p.price_preference = <<>>
    /\ p.min_rating.k = "none"
    /\ p.cuisine_preferences.k = "none"

\* the non-empty, trimmed, lowercased comma-separated fragments of a location
TrimmedFragments(location) ==
    LET pieces == Split(Lower(location), 44)
        kept == SelectSeq(pieces, LAMBDA f : Strip(f) # <<>>)
    IN  {Strip(kept[i]) : i \in 1..Len(kept)}

\* C1: with only a location set, a row is kept if and only if every
\* non-empty trimmed lowercased comma-separated fragment of the location is
\* a substring of the row's lowercased city or of its lowercased locality
\* (so "Bangalore, Indiranagar" keeps the Bangalore / Indiranagar row).
C1_KeptIffEveryTrimmedFragmentMatches ==
    (Filtered /\ OnlyLocationSet(payload)) =>
        \A i \in 1..Len(rows) :
            (rows[i] \in Range(result.locals.filtered))
            <=> \A f \in TrimmedFragments(payload.location) :
                    \/ IsSubstr(f, Lower(rows[i].std_city))
                    \/ IsSubstr(f, Lower(rows[i].std_locality))

\* C2: whatever the payload and the data file hold, the composer ends by
\* returning a response; it never ends by raising.
C2_ComposerNeverRaises ==
    pc = "done" => result.kind = "returned"

Populated(x) == x # None /\ x # ""

\* C5: in every response of the composer explanation and explanation_error
\* are not both populated, and a populated explanation_error comes with an
\* empty restaurant list and an unset explanation.
C5_ExplanationExclusive ==
    Returned =>
        /\ ~(Populated(result.explanation) /\ Populated(result.explanation_error))
        /\ Populated(result.explanation_error) =>
               result.restaurants = <<>> /\ result.explanation = None

C5_Witness_ErrorResponse ==
    Returned /\ csv_file = "unreadable" /\ Populated(result.explanation_error)

\* the requested result count of a payload (the default when none is given)
RequestedCount(p) ==
    IF p.num_results.k = "none" THEN DefaultResults
    ELSE IF p.num_results.k = "num" THEN p.num_results.n
    ELSE ParseInt(p.num_results.s).val

\* C8: the output is exactly the first L entries of the rows that pass the
\* filter, in descending rating (missing counts 0) then ascending name
\* order, where L is the requested result count clamped to [1,10]; it never
\* has more than 10 entries.
C8_FirstLOfRankedWithClampedCount ==
    Returned /\ result.at = "end" =>
        /\ IsFirstOf(result.locals.top, result.locals.filtered,
                     Max(1, Min(10, RequestedCount(payload))))
        /\ result.restaurants =
               [i \in 1..Len(result.locals.top) |-> Restaurant(result.locals.top[i])]
        /\ Len(result.restaurants) <= 10

RequestedCuisines(p) ==
    IF p.cuisine_preferences.k = "list" THEN Range(p.cuisine_preferences.items)
    ELSE IF p.cuisine_preferences.k = "str" THEN {p.cuisine_preferences.s} \ {<<>>}
    ELSE {}

\* C9: every restaurant of the output passes every configured constraint:
\* its price tier equals the requested one up to case, its rating (0 when
\* missing) is at least the minimum rating, and it shares a cuisine, up to
\* case, with a non-empty requested cuisine set.
C9_OutputPassesConstraints ==
    Returned =>
        \A i \in 1..Len(result.restaurants) :
            LET x == result.restaurants[i]
            IN  /\ payload.price_preference # <<>> =>
                       Lower(x.price_bucket) = Lower(payload.price_preference)
                /\ payload.min_rating.k = "num" =>
                       x.rating.ok /\ x.rating.val >= payload.min_rating.n
                /\ RequestedCuisines(payload) # {} =>
                       \E c \in RequestedCuisines(payload) :
                           \E d \in Range(x.cuisines) : Lower(c) = Lower(d)

C9_Witness_AllConstraintsSet ==
    /\ Returned /\ result.restaurants # <<>>
    /\ payload.price_preference # <<>>
    /\ payload.min_rating.k = "num"
    /\ RequestedCuisines(payload) # {}

\* C10: with every preference unset no row is filtered out, whatever its
\* fields, and the output is the rows in rating/name order cut only by the
\* result limit.
C10_UnsetPreferencesFilterNothing ==
    (pc = "done" /\ csv_file = "ok" /\ AllUnset(payload)) =>
        /\ Filtered => result.locals.filtered = rows
        /\ result.kind = "returned" =>
               /\ IsFirstOf(result.locals.top, rows, result.locals.num_results)
               /\ result.restaurants =
                      [i \in 1..Len(result.locals.top) |->
                          Restaurant(result.locals.top[i])]

C10_Witness_MissingFieldsKeptAndCut ==
    /\ Returned /\ csv_file = "ok" /\ AllUnset(payload)
    /\ \E i \in 1..Len(rows) : rows[i].std_rating = <<>> /\ rows[i].std_city = <<>>
    /\ \E i \in 1..Len(result.locals.top) : result.locals.top[i].std_rating = <<>>
    /\ Len(result.restaurants) < Len(rows)

----------------------------------------------------------------------------
(* streamlit_app.py: one submitted form, lines 276-329.  The handler builds *)
(* the payload, calls get_recommendations once, and calls the composer when *)
(* that call gave no result.                                                *)

\* what the widgets can hold: a place label or "", a price or "", a rating
\* in tenths, selected cuisines, a result count in 1..10
Forms ==
    [location : {<<>>, s_BangaloreIndiranagar},
     price : {<<>>, s_low},
     min_rating : {0, 40},
     cuisine_selection : {<<>>, <<s_pizza>>},
     num_results : {1, 5}]

\* lines 277-286: num_results and min_rating always, the rest when chosen
BuildPayload(f) ==
    [location |-> f.location,
     price_preference |-> f.price,
     min_rating |-> PyNum(f.min_rating),
     cuisine_preferences |->
         IF f.cuisine_selection # <<>> THEN CuisineList(f.cuisine_selection)
         ELSE NoCuisines,
     num_results |-> PyNum(f.num_results)]

\* what POST /recommendations can do: answer with a JSON object, an empty
\* object or null, or fail with a RequestException
ApiOutcomes == {"object", "empty_object", "null", "RequestException"}

\* the value get_recommendations returns: r.json(), or None after a
\* RequestException; Pending stands for None
ApiResult(outcome) ==
    IF outcome \in {"object", "empty_object"}
    THEN [kind |-> outcome, exc |-> None, at |-> "api",
          restaurants |-> <<>>,
          explanation |-> IF outcome = "object" THEN "AI explanation" ELSE None,
          explanation_error |-> None, locals |-> NoLocals]
    ELSE Pending

\* mutant: the composer is called whatever the API call gave
ResultIsNone_Always(r) == TRUE

\* line 290: result is None
ResultIsNone(r) == r.kind = "pending"

InitRequest ==
    /\ csv_file \in {"missing", "unreadable", "ok"}
    /\ rows \in RowLists
    /\ csv_file # "ok" => rows = <<>>
    /\ form \in Forms
    /\ payload = NoPayload
    /\ pc = "submitted"
    /\ result = Pending
    /\ api = "none" /\ trace = <<>> /\ api_attempts = 0 /\ fallback_calls = 0
    /\ ParseIdle /\ GenIdle

\* lines 276-286
Submit ==
    /\ pc = "submitted"
    /\ payload' = BuildPayload(form)
    /\ trace' = Append(trace, "RECEIVED")
    /\ pc' = "try"
    /\ UNCHANGED <<csv_file, rows, result, form, api, api_attempts,
                   fallback_calls, text, parsed, gen>>

\* lines 288-289 and 160-176: the one call of get_recommendations
GetRecommendations ==
    /\ pc = "try"
    /\ \E outcome \in ApiOutcomes :
           /\ api' = outcome
           /\ result' = ApiResult(outcome)
    /\ api_attempts' = api_attempts + 1
    /\ trace' = Append(trace, "TRY_LLM_PATH")
    /\ pc' = "check"
    /\ UNCHANGED <<csv_file, rows, payload, form, fallback_calls, text, parsed, gen>>

\* line 290, result is not None: the API's answer is the result
UseApiResult ==
    /\ pc = "check"
    /\ ~ResultIsNone(result)
    /\ trace' = Append(trace, "SUCCESS")
    /\ pc' = "render"
    /\ UNCHANGED <<csv_file, rows, payload, result, form, api, api_attempts,
                   fallback_calls, text, parsed, gen>>

\* lines 290-292, result is None: the composer's answer is the result, or
\* the composer's exception leaves the handler
UseFallback ==
    /\ pc = "check"
    /\ ResultIsNone(result)
    /\ result' = recommendations_from_csv(csv_file, rows, payload)
    /\ fallback_calls' = fallback_calls + 1
    /\ trace' = Append(trace, "DEGRADE_TO_FALLBACK")
    /\ pc' = IF result'.kind = "raised" THEN "raised" ELSE "render"
    /\ UNCHANGED <<csv_file, rows, payload, form, api, api_attempts,
                   text, parsed, gen>>

\* lines 294-329: the result is shown
Render ==
    /\ pc = "render"
    /\ trace' = Append(trace, "RETURNED")
    /\ pc' = "returned"
    /\ UNCHANGED <<csv_file, rows, payload, result, form, api, api_attempts,
                   fallback_calls, text, parsed, gen>>

NextRequest ==
    \/ Submit
    \/ GetRecommendations
    \/ UseApiResult
    \/ UseFallback
    \/ Render

SpecRequest == InitRequest /\ [][NextRequest]_vars

IsPrefix(s, t) == Len(s) <= Len(t) /\ SubSeq(t, 1, Len(s)) = s

SuccessPath == <<"RECEIVED", "TRY_LLM_PATH", "SUCCESS", "RETURNED">>
DegradePath == <<"RECEIVED", "TRY_LLM_PATH", "DEGRADE_TO_FALLBACK", "RETURNED">>

\* C6: a request goes RECEIVED, TRY_LLM_PATH, then one of SUCCESS and
\* DEGRADE_TO_FALLBACK, then RETURNED; the API path is tried once, the
\* composer runs only after that try gave no result and never after it
\* gave one, and nothing is tried again after the request degraded.
C6_RequestPhases ==
    /\ IsPrefix(trace, SuccessPath) \/ IsPrefix(trace, DegradePath)
    /\ api_attempts = Count("TRY_LLM_PATH", trace)
    /\ fallback_calls = Count("DEGRADE_TO_FALLBACK", trace)
    /\ Len(trace) >= 3 => api_attempts = 1
    /\ fallback_calls > 0 => api \in {"RequestException", "null"}
    /\ api \in {"object", "empty_object"} => fallback_calls = 0

C6_Witness_DegradedAndReturned ==
    trace = DegradePath /\ api = "RequestException" /\ fallback_calls = 1
        /\ api_attempts = 1 /\ result.restaurants # <<>>

----------------------------------------------------------------------------
(* SpecParse: _parse_llm_response applied to every response text. *)

InitParse ==
    /\ text \in Texts
    /\ parsed = NoParse
    /\ pc = "parse"
    /\ csv_file = "missing" /\ rows = <<>> /\ payload = NoPayload
    /\ result = Pending
    /\ RequestIdle /\ GenIdle

ParseLlmResponse ==
    /\ pc = "parse"
    /\ parsed' = _parse_llm_response(text)
    /\ pc' = "done"
    /\ UNCHANGED <<csv_file, rows, payload, result, form, api, trace,
                   api_attempts, fallback_calls, text, gen>>

NextParse == ParseLlmResponse

SpecParse == InitParse /\ [][NextParse]_vars

\* the top level of the text is a well-formed document: a JSON object
TopLevelDocument(t) == JsonLoads(t).ok /\ JsonLoads(t).value.t = "obj"

\* C3: a text whose top level is no well-formed document (no JSON at all,
\* or JSON whose top-level value is an array, a string, a number or null)
\* makes parse fail with the ValueError of a malformed response.
C3_MalformedTopLevelRaisesValueError ==
    (pc = "done" /\ ~TopLevelDocument(text)) =>
        parsed.kind = "raised" /\ parsed.exc = "ValueError"

\* the records of the document's recommendations array, in order
RecordsOf(doc) ==
    LET recs == JGet(doc, k_recommendations)
    IN  IF recs.t = "arr" THEN SelectSeq(recs.a, LAMBDA e : e.t = "obj") ELSE <<>>

\* C7: for a text whose top level is a well-formed document parse returns
\* a result whose recommendations hold, in order, one entry per record of
\* the recommendations array: other entries are skipped, a record without
\* restaurant_name is kept with restaurant_name "", and a document without
\* recommendations gives the empty list.
C7_OneEntryPerRecord ==
    (pc = "done" /\ TopLevelDocument(text)) =>
        LET records == RecordsOf(JsonLoads(text).value)
        IN  /\ parsed.kind = "returned"
            /\ Len(parsed.recommendations) = Len(records)
            /\ \A i \in 1..Len(records) :
                   /\ parsed.recommendations[i].restaurant_id
                          = JGet(records[i], k_restaurant_id)
                   /\ parsed.recommendations[i].restaurant_name
                          = IF JGet(records[i], k_restaurant_name) = JNull
                            THEN JStr(<<>>)
                            ELSE JGet(records[i], k_restaurant_name)

----------------------------------------------------------------------------
(* SpecGenerate: one generate_restaurant_recommendations invocation. *)

InitGenerate ==
    /\ \E up \in Preferences, cs \in CandidateLists \cup {LongCandidateList},
          m \in {1, 5},
          cl \in {"none", "supplied"} :
           gen = GenStart(up, cs, m, cl)
    /\ csv_file = "missing" /\ rows = <<>> /\ payload = NoPayload
    /\ pc = "idle" /\ result = Pending
    /\ RequestIdle /\ ParseIdle

GenUnchanged ==
    UNCHANGED <<csv_file, rows, payload, pc, result, form, api, trace,
                api_attempts, fallback_calls, text, parsed>>

\* mutant: the candidate list is not checked
HasNoCandidates_Unchecked(candidates) == FALSE

\* line 165: not candidates
HasNoCandidates(candidates) == candidates = <<>>

\* lines 165-166
CheckCandidates ==
    /\ gen.pc = "check"
    /\ gen' = IF HasNoCandidates(gen.candidates)
              THEN [gen EXCEPT !.pc = "done", !.outcome = EmptyCandidateSet]
              ELSE [gen EXCEPT !.pc = "build"]
    /\ GenUnchanged

\* lines 168-173
BuildPrompts ==
    /\ gen.pc = "build"
    /\ gen' = [gen EXCEPT
                 !.pc = "client",
                 !.user_prompt = _build_user_prompt(gen.user_preferences,
                                     gen.candidates, gen.max_recommendations)]
    /\ GenUnchanged

\* lines 175-176 with a client handed in
UseSuppliedClient ==
    /\ gen.pc = "client"
    /\ gen.client = "supplied"
    /\ gen' = [gen EXCEPT !.pc = "call"]
    /\ GenUnchanged

\* lines 175-176 without one: GroqLLMClient() gives a client, or raises
\* GroqImportError (no groq package) or the provider's error (no API key)
ConstructClient ==
    /\ gen.pc = "client"
    /\ gen.client = "none"
    /\ \E made \in {"ok", "GroqImportError", "GroqError"} :
           gen' = IF made = "ok"
                  THEN [gen EXCEPT !.pc = "call", !.client = "constructed",
                                   !.clients_constructed = @ + 1]
                  ELSE [gen EXCEPT !.pc = "done",
                                   !.clients_constructed = @ + 1,
                                   !.outcome = ParseRaised(made)]
    /\ GenUnchanged

\* variant: a failed request is sent once more
ChatFailed_Retries(g, exc) ==
    IF g.gateway_calls = 0
    THEN [g EXCEPT !.pc = "call",
                   !.gateway_calls = @ + 1,
                   !.upstream_requests = @ + 1]
    ELSE [g EXCEPT !.pc = "done",
                   !.gateway_calls = @ + 1,
                   !.upstream_requests = @ + 1,
                   !.outcome = ParseRaised(exc)]

\* an exception of chat_completion (llm_client.py 110-112) leaves line 189
\* and generate: nothing catches it, nothing calls again
ChatFailed(g, exc) ==
    [g EXCEPT !.pc = "done",
              !.gateway_calls = @ + 1,
              !.upstream_requests = @ + 1,
              !.outcome = ParseRaised(exc)]

\* line 189 and llm_client.py 95-112: one chat_completion call makes one
\* chat.completions.create request, which answers with a text or raises
\* (the provider's APIError from create, IndexError from choices[0] of an
\* answer without choices)
ChatCompletion ==
    /\ gen.pc = "call"
    /\ \/ \E t \in ResponsePool :
              gen' = [gen EXCEPT !.pc = "parse",
                                 !.gateway_calls = @ + 1,
                                 !.upstream_requests = @ + 1,
                                 !.response_text = t]
       \/ \E exc \in {"APIError", "IndexError"} :
              gen' = ChatFailed(gen, exc)
    /\ GenUnchanged

\* line 190
ParseResponse ==
    /\ gen.pc = "parse"
    /\ gen' = [gen EXCEPT !.pc = "done",
                          !.outcome = _parse_llm_response(gen.response_text)]
    /\ GenUnchanged

NextGenerate ==
    \/ CheckCandidates
    \/ BuildPrompts
    \/ UseSuppliedClient
    \/ ConstructClient
    \/ ChatCompletion
    \/ ParseResponse

SpecGenerate == InitGenerate /\ [][NextGenerate]_vars

\* C4: generate with an empty candidate list fails with EmptyCandidateSet
\* whatever the preferences and the client argument, before a client is
\* constructed and before any gateway call.
C4_EmptyCandidatesFailFirst ==
    gen.candidates = <<>> =>
        /\ gen.clients_constructed = 0
        /\ gen.gateway_calls = 0 /\ gen.upstream_requests = 0
        /\ gen.pc \in {"check", "done"}
        /\ gen.pc = "done" => gen.outcome = EmptyCandidateSet

C4_Witness_EmptyCandidatesRaised ==
    /\ gen.candidates = <<>> /\ gen.pc = "done"
    /\ gen.outcome = EmptyCandidateSet
    /\ gen.client = "supplied" /\ gen.user_preferences.price_preference = "medium"

\* the invocation has a client to call: the one handed in, or the one
\* GroqLLMClient() made
HasClient == gen.client \in {"supplied", "constructed"}

\* C11 as stated: every invocation with a non-empty candidate list makes
\* exactly one gateway call and one upstream request.
C11_ExactlyOneGatewayCall ==
    (gen.pc = "done" /\ gen.candidates # <<>>) =>
        gen.gateway_calls = 1 /\ gen.upstream_requests = 1

\* C11, amended: an invocation with a non-empty candidate list whose client
\* was handed in or could be constructed makes exactly one gateway call, and
\* a gateway call makes exactly one upstream request; a gateway call is
\* never repeated, so a failing gateway call or a failing parse ends the
\* invocation with that failure and no result after exactly one upstream
\* request.  When GroqLLMClient() raises, the invocation ends with that
\* failure before any gateway call.
C11_OneGatewayCallOnceAClientExists ==
    /\ gen.gateway_calls <= 1
    /\ gen.upstream_requests = gen.gateway_calls
    /\ gen.pc = "parse" => gen.gateway_calls = 1
    /\ (gen.pc = "done" /\ gen.candidates # <<>>) =>
           IF HasClient
           THEN /\ gen.gateway_calls = 1
                /\ gen.outcome.kind \in {"returned", "raised"}
                /\ gen.outcome.kind = "raised" =>
                       /\ gen.outcome.exc \in {"APIError", "IndexError", "ValueError",
                                               "AttributeError", "TypeError"}
                       /\ gen.outcome.recommendations = <<>>
                       /\ gen.outcome.title = JNull
           ELSE /\ gen.gateway_calls = 0
                /\ gen.outcome.kind = "raised"
                /\ gen.outcome.exc \in {"GroqImportError", "GroqError"}

\* a constructed client, one request, and a response that fails to parse
C11_Witness_ParseFailedAfterOneRequest ==
    /\ gen.pc = "done" /\ gen.candidates # <<>>
    /\ gen.client = "constructed"
    /\ gen.gateway_calls = 1 /\ gen.upstream_requests = 1
    /\ gen.outcome.kind = "raised" /\ gen.outcome.exc = "ValueError"

\* the prompt has been built
PromptBuilt ==
    gen.pc \in {"client", "call", "parse"}
    \/ (gen.pc = "done" /\ gen.candidates # <<>>)

\* section 4.1's price and minimum-rating constraints on a candidate (a
\* missing rating counts as 0)
PassesPriceAndRating(prefs, c) ==
    /\ prefs.price_preference # None => c.price_bucket = prefs.price_preference
    /\ prefs.min_rating >= 0 => Max(c.rating, 0) >= prefs.min_rating

\* C12 as stated: the prompt is built from the working set the filter/rank
\* engine makes of the supplied candidates.  Stated by what every working
\* set satisfies: each of its candidates passes the price and rating
\* constraints of the preferences, and they stand in descending order of
\* rating.
C12_PromptBuiltFromWorkingSet ==
    PromptBuilt =>
        LET sent == gen.user_prompt.candidate_restaurants
        IN  /\ \A i \in 1..Len(sent) :
                   PassesPriceAndRating(gen.user_preferences, sent[i])
            /\ \A i \in 1..Len(sent), j \in 1..Len(sent) :
                   i < j => Max(sent[i].rating, 0) >= Max(sent[j].rating, 0)

\* C12, amended: within one generate call no filter/rank engine runs; the
\* prompt builder runs on the supplied candidates, and the prompt holds the
\* first 50 entries of the caller's list in the caller's order, each as
\* given but for its raw bag, which is cut to its first 8 keys.
C12_PromptBuiltFromSuppliedCandidates ==
    PromptBuilt =>
        LET sent == gen.user_prompt.candidate_restaurants
            given == gen.candidates
        IN  /\ Len(sent) = Min(Len(given), 50)
            /\ \A i \in 1..Len(sent) :
                   /\ sent[i].id = given[i].id
                   /\ sent[i].name = given[i].name
                   /\ sent[i].city = given[i].city
                   /\ sent[i].locality = given[i].locality
                   /\ sent[i].price_bucket = given[i].price_bucket
                   /\ sent[i].rating = given[i].rating
                   /\ sent[i].cuisines = given[i].cuisines
                   /\ Len(sent[i].raw) = Min(Len(given[i].raw), 8)
                   /\ \A k \in 1..Len(sent[i].raw) : sent[i].raw[k] = given[i].raw[k]
            /\ gen.user_prompt.user_preferences = gen.user_preferences
            /\ gen.user_prompt.max_recommendations = gen.max_recommendations

\* a medium-price preference, and a prompt that carries a low-price
\* candidate ahead of a better rated one
C12_Witness_UnfilteredUnrankedPrompt ==
    /\ gen.pc = "call"
    /\ gen.user_preferences.price_preference = "medium"
    /\ Len(gen.user_prompt.candidate_restaurants) = 2
    /\ gen.user_prompt.candidate_restaurants[1].price_bucket = "low"
    /\ gen.user_prompt.candidate_restaurants[1].rating
           < gen.user_prompt.candidate_restaurants[2].rating

----------------------------------------------------------------------------
(* SpecResponse: a response text handed to _parse_llm_response directly,  *)
(* or one generate_restaurant_recommendations invocation.                 *)

InitResponse == InitParse \/ InitGenerate

NextResponse ==
    \/ ParseLlmResponse
    \/ CheckCandidates
    \/ BuildPrompts
    \/ UseSuppliedClient
    \/ ConstructClient
    \/ ChatCompletion
    \/ ParseResponse

SpecResponse == InitResponse /\ [][NextResponse]_vars

\* C13: every result parse returns, called directly or by generate,
\* carries raw_response_text equal to the text it was given, character for
\* character, also when entries were skipped or defaulted.
C13_RawResponseTextVerbatim ==
    /\ (pc = "done" /\ parsed.kind = "returned") =>
           parsed.raw_response_text = text.raw
    /\ (gen.pc = "done" /\ gen.outcome.kind = "returned") =>
           gen.outcome.raw_response_text = gen.response_text.raw

\* generate returned a result for a text with white space around it, of
\* whose two entries one was skipped and the other got the default name
C13_Witness_SkippedAndDefaultedEntries ==
    /\ gen.pc = "done" /\ gen.outcome.kind = "returned"
    /\ gen.response_text = PaddedResponse
    /\ Len(JGet(JsonLoads(gen.response_text).value, k_recommendations).a) = 2
    /\ Len(gen.outcome.recommendations) = 1
    /\ gen.outcome.recommendations[1].restaurant_name = JStr(<<>>)
    /\ gen.outcome.raw_response_text[1] = 32

=============================================================================
